---- MODULE Spec2Model ----
(***************************************************************************)
(* mcdns-updater: probe every configured node, select the node with the   *)
(* best bandwidth^2 / latency score, and reconcile one SRV record per     *)
(* node alias plus one SRV record for the base subdomain.                 *)
(*                                                                         *)
(* Domain names are sequences of characters; "." is the separator and     *)
(* every other element stands for a dot-free run of characters.           *)
(* A score is a fraction <<numerator, denominator>> with a positive       *)
(* denominator, compared by cross-multiplication.                          *)
(***************************************************************************)
EXTENDS Integers, Sequences, FiniteSets, TLC

VARIABLES
    config,     \* the validated Config: [nodes, subdomain]
    records,    \* the provider's record set of the zone
    pc,         \* position of main
    idx,        \* loop index of the probing comprehension / the alias loop
    probes,     \* what server.ping() did for each probed node, in order
    prefs,      \* the scores computed so far (second components of prefs)
    selected,   \* index of the selected node, 0 before selection
    session,    \* the Cloudflare client: "unopened", "open", "closed"
    outcome,    \* how the run ended, "running" until then
    stderr,     \* lines written through eprint
    call,       \* per caller: the frame of its update_record call
    log,        \* every provider call issued, in order
    invs,       \* every update_record invocation, in order
    concat      \* a call of concat_domain: its parts and what it returned

vars == <<config, records, pc, idx, probes, prefs, selected, session,
          outcome, stderr, call, log, invs, concat>>

mainVars == <<pc, idx, probes, prefs, selected, session, outcome, stderr>>

-----------------------------------------------------------------------------
(* Bounds of the model *)

MaxNodes == 2
MaxCalls == 2
MaxParts == 3
MaxPartLen == 2

(* Program constants *)

DefaultPort == 25565

-----------------------------------------------------------------------------
(* Domain names *)

Dot == "."

MinecraftTcp == <<"_minecraft", Dot, "_tcp">>

removesuffix(s) ==
    IF Len(s) > 0 /\ s[Len(s)] = Dot THEN SubSeq(s, 1, Len(s) - 1) ELSE s

RECURSIVE join(_)
join(parts) ==
    IF parts = <<>> THEN <<>>
    ELSE IF Len(parts) = 1 THEN parts[1]
    ELSE parts[1] \o <<Dot>> \o join(Tail(parts))

concat_domain(parts) ==
    join([k \in 1..Len(parts) |-> removesuffix(parts[k])])

NoConcat == [parts |-> <<>>, kind |-> "none", result |-> <<>>]

-----------------------------------------------------------------------------
(* Configuration: class Node, class Config *)

NodeShapes ==
    { [subdomain |-> <<"a">>,      host |-> "h1", port |-> DefaultPort],
      [subdomain |-> <<"a", Dot>>, host |-> "h2", port |-> DefaultPort + 1],
      [subdomain |-> <<"b">>,      host |-> "h3", port |-> DefaultPort] }

\* Config accepts any integer bandwidth, 0 included
Bandwidths == {0, 1, 2}

Node ==
    { [subdomain |-> s.subdomain, host |-> s.host, port |-> s.port,
       bandwidth |-> b] : s \in NodeShapes, b \in Bandwidths }

NodeLists == UNION { [1..n -> Node] : n \in 0..MaxNodes }

\* the validator of Config.nodes: the subdomain strings are pairwise distinct
check_nodes(val) ==
    \A i, j \in 1..Len(val) : val[i].subdomain = val[j].subdomain => i = j

Bases == { <<"mc">>, <<"mc", Dot>> }

Config ==
    { [nodes |-> ns, subdomain |-> b] :
        ns \in { val \in NodeLists : check_nodes(val) }, b \in Bases }

-----------------------------------------------------------------------------
(* Scoring: check_preference *)

ZeroScore == <<0, 1>>

ScoreLT(a, b) == a[1] * b[2] < b[1] * a[2]

\* the test that never takes the early return of main
no_node_never(pref) == pref[1] < 0

\* if pref == 0: return eprint("no node available.")
no_node_available(pref) == pref[1] = 0

\* what server.ping() can do: raise, or return a latency (0 included)
Latencies == {0, 1, 4}

ProbeResults ==
    { [ok |-> FALSE, lat |-> 0] } \cup { [ok |-> TRUE, lat |-> l] : l \in Latencies }

\* check_preference without its try/except: the failure of ping() leaves it
check_preference_uncaught(node, r) ==
    IF ~r.ok
    THEN [raised |-> "ProbeFailure", value |-> ZeroScore, eprint |-> <<>>]
    ELSE IF r.lat = 0
    THEN [raised |-> "ZeroDivisionError", value |-> ZeroScore, eprint |-> <<>>]
    ELSE [raised |-> "",
          value |-> <<node.bandwidth * node.bandwidth, r.lat>>,
          eprint |-> <<>>]

\* raised: the exception that leaves check_preference, "" when it returns
check_preference(node, r) ==
    IF ~r.ok
    THEN [raised |-> "", value |-> ZeroScore, eprint |-> <<"ping failed">>]
    ELSE IF r.lat = 0
    THEN [raised |-> "ZeroDivisionError", value |-> ZeroScore, eprint |-> <<>>]
    ELSE [raised |-> "",
          value |-> <<node.bandwidth * node.bandwidth, r.lat>>,
          eprint |-> <<>>]

-----------------------------------------------------------------------------
(* Selection: max(prefs, key=lambda val: val[1]) *)

\* a max() that also replaces its best by an equal key: the last maximum wins
max_replaces_equal(cand, best) == ~ScoreLT(cand, best)

\* max() replaces its current best only by a strictly greater key
max_replaces(cand, best) == ScoreLT(best, cand)

RECURSIVE max_from(_, _, _)
max_from(ps, k, best) ==
    IF k > Len(ps) THEN best
    ELSE max_from(ps, k + 1, IF max_replaces(ps[k], ps[best]) THEN k ELSE best)

max_index(ps) == max_from(ps, 2, 1)

-----------------------------------------------------------------------------
(* The DNS provider: one zone, its records, and the calls update_record makes *)

ZoneName == <<"example", Dot, "com">>

Callers == {"p1", "p2"}

MainCaller == "p1"

srv_data(host, port) ==
    [target |-> host, port |-> port, priority |-> 0, weight |-> 0]

StaleData == [target |-> "old", port |-> 1, priority |-> 10, weight |-> 5]

\* records an earlier writer may have left in the zone
PreExisting ==
    { [id |-> 1, type |-> "SRV", data |-> StaleData,
       name |-> concat_domain(<<MinecraftTcp, <<"mc">>, ZoneName>>)],
      [id |-> 2, type |-> "SRV", data |-> StaleData,
       name |-> concat_domain(<<MinecraftTcp, <<"a", Dot, "mc">>, ZoneName>>)],
      [id |-> 3, type |-> "TXT", data |-> StaleData,
       name |-> concat_domain(<<MinecraftTcp, <<"b", Dot, "mc">>, ZoneName>>)] }

InitialZones == { {}, PreExisting }

\* a listing that never finds the record
list_matches_nothing(recs, fqdn) == {}

\* a listing whose filter forgets the name
list_matches_any_name(recs, fqdn) == { r \in recs : r.type = "SRV" }

\* a listing that asks for another record type
list_matches_txt(recs, fqdn) == { r \in recs : r.name = fqdn /\ r.type = "TXT" }

\* dns.records.list(name exact, type SRV): the records the filter matches
list_matches(recs, fqdn) == { r \in recs : r.name = fqdn /\ r.type = "SRV" }

\* the provider gives a created record an identity no record has yet
fresh_id(recs) ==
    IF recs = {} THEN 1
    ELSE 1 + (CHOOSE m \in { r.id : r \in recs } : \A r \in recs : r.id <= m)

\* dns.records.create(zone_id, name, data, type="SRV")
records_create(recs, fqdn, data) ==
    recs \cup { [id |-> fresh_id(recs), type |-> "SRV", data |-> data, name |-> fqdn] }

\* an update that leaves the addressed record and adds another one
records_update_adds(recs, id, fqdn, data) == records_create(recs, fqdn, data)

\* an update that forgets the identity and rewrites every record
records_update_every(recs, id, fqdn, data) ==
    { [id |-> r.id, type |-> "SRV", data |-> data, name |-> fqdn] : r \in recs }

\* dns.records.update(dns_record_id, zone_id, name, data, type="SRV")
records_update(recs, id, fqdn, data) ==
    { IF r.id = id
      THEN [id |-> id, type |-> "SRV", data |-> data, name |-> fqdn]
      ELSE r : r \in recs }

IdleFrame ==
    [pc |-> "idle", inv |-> 0, subdomain |-> <<>>, host |-> "", port |-> 0,
     fqdn |-> <<>>, found |-> 0]

\* ok: the call gave update_record what it needs to go on
Logged(p, op, name, id, ok) ==
    [caller |-> p, inv |-> call[p].inv, op |-> op, name |-> name, id |-> id,
     ok |-> ok, session |-> session]

\* a caller enters update_record(cloudflare, zone_id, subdomain, host, port)
Invoke(p, subdomain, host, port) ==
    /\ call' = [call EXCEPT ![p] =
                  [pc |-> "zone_get", inv |-> Len(invs) + 1,
                   subdomain |-> subdomain, host |-> host, port |-> port,
                   fqdn |-> <<>>, found |-> 0]]
    /\ invs' = Append(invs,
                  [caller |-> p, subdomain |-> subdomain, host |-> host,
                   port |-> port, status |-> "active", before |-> records,
                   after |-> records])
    /\ UNCHANGED <<records, log>>

\* the call ends, by return or by the exception of a provider call
Finish(p, status, recs) ==
    /\ call' = [call EXCEPT ![p].pc = status]
    /\ invs' = [invs EXCEPT ![call[p].inv].status = status,
                            ![call[p].inv].after = recs]

\* zone = cloudflare.zones.get(zone_id); assert zone; fqdn = concat_domain(...)
ZoneGet(p) ==
    /\ call[p].pc = "zone_get"
    /\ \E res \in {"zone", "none", "error"} :
          /\ log' = Append(log, Logged(p, "zone_get", <<>>, 0, res = "zone"))
          /\ IF res = "zone"
             THEN /\ call' = [call EXCEPT
                       ![p].pc = "list",
                       ![p].fqdn = concat_domain(<<MinecraftTcp,
                                                   call[p].subdomain, ZoneName>>)]
                  /\ UNCHANGED invs
             ELSE Finish(p, "raised", records)
    /\ UNCHANGED <<config, concat, records, mainVars>>

\* records = cloudflare.dns.records.list(..., per_page=1); records.result[0].id
List(p) ==
    /\ call[p].pc = "list"
    /\ \E ok \in BOOLEAN :
          LET fqdn == call[p].fqdn
              matches == list_matches(records, fqdn)
          IN  IF ~ok
              THEN /\ log' = Append(log, Logged(p, "list", fqdn, 0, FALSE))
                   /\ Finish(p, "raised", records)
              ELSE IF matches = {}
              THEN /\ log' = Append(log, Logged(p, "list", fqdn, 0, TRUE))
                   /\ call' = [call EXCEPT ![p].pc = "commit", ![p].found = 0]
                   /\ UNCHANGED invs
              ELSE \E r \in matches :
                   /\ log' = Append(log, Logged(p, "list", fqdn, r.id, TRUE))
                   /\ call' = [call EXCEPT ![p].pc = "commit", ![p].found = r.id]
                   /\ UNCHANGED invs
    /\ UNCHANGED <<config, concat, records, mainVars>>

\* a branch that always creates
commit_op_create(found) == "create"

\* the branch on records.result: which provider call commits the record
commit_op(found) == IF found # 0 THEN "update" ELSE "create"

\* commit_dns_record(zone_id=zone_id, name=fqdn, data=data, type="SRV")
Commit(p) ==
    /\ call[p].pc = "commit"
    /\ \E ok \in BOOLEAN :
          LET fqdn == call[p].fqdn
              found == call[p].found
              op == commit_op(found)
              data == srv_data(call[p].host, call[p].port)
              recs == IF op = "update"
                      THEN records_update(records, found, fqdn, data)
                      ELSE records_create(records, fqdn, data)
              id == IF op = "update" THEN found ELSE fresh_id(records)
          IN  IF ~ok
              THEN /\ log' = Append(log, Logged(p, op, fqdn, found, FALSE))
                   /\ Finish(p, "raised", records)
                   /\ UNCHANGED records
              ELSE /\ log' = Append(log, Logged(p, op, fqdn, id, TRUE))
                   /\ records' = recs
                   /\ Finish(p, "returned", recs)
    /\ UNCHANGED <<config, concat, mainVars>>

-----------------------------------------------------------------------------
(* main *)

Nodes == config.nodes

\* the run ends: main returns or an exception leaves it
Exit(how) ==
    /\ pc' = "done"
    /\ outcome' = how

\* one element of the comprehension: check_preference(node, config.timeout)
Probe ==
    /\ pc = "probing"
    /\ idx <= Len(Nodes)
    /\ \E r \in ProbeResults :
          LET res == check_preference(Nodes[idx], r)
          IN  /\ probes' = Append(probes, r)
              /\ stderr' = stderr \o res.eprint
              /\ IF res.raised # ""
                 THEN /\ Exit(res.raised)
                      /\ UNCHANGED <<idx, prefs>>
                 ELSE /\ prefs' = Append(prefs, res.value)
                      /\ idx' = idx + 1
                      /\ UNCHANGED <<pc, outcome>>
    /\ UNCHANGED <<config, concat, records, selected, session, call, log, invs>>

\* a main that reports "no node available." and reconciles all the same
Select_reconciles_anyway ==
    /\ pc = "probing"
    /\ idx > Len(Nodes)
    /\ IF prefs = <<>>
       THEN /\ Exit("ValueError")
            /\ UNCHANGED <<selected, stderr>>
       ELSE LET best == max_index(prefs)
            IN  /\ selected' = best
                /\ pc' = "selected"
                /\ stderr' = IF prefs[best][1] = 0
                             THEN Append(stderr, "no node available.")
                             ELSE stderr
                /\ UNCHANGED outcome
    /\ UNCHANGED <<config, concat, records, idx, probes, prefs, session, call, log, invs>>

\* selected, pref = max(prefs, ...); if pref == 0: return eprint(...)
Select ==
    /\ pc = "probing"
    /\ idx > Len(Nodes)
    /\ IF prefs = <<>>
       THEN /\ Exit("ValueError")
            /\ UNCHANGED <<selected, stderr>>
       ELSE LET best == max_index(prefs)
            IN  IF no_node_available(prefs[best])
                THEN /\ stderr' = Append(stderr, "no node available.")
                     /\ Exit("no_node")
                     /\ UNCHANGED selected
                ELSE /\ selected' = best
                     /\ pc' = "selected"
                     /\ UNCHANGED <<outcome, stderr>>
    /\ UNCHANGED <<config, concat, records, idx, probes, prefs, session, call, log, invs>>

\* with Cloudflare(api_token=config.api_token) as cloudflare:
OpenSession ==
    /\ pc = "selected"
    /\ session' = "open"
    /\ pc' = "aliases"
    /\ idx' = 1
    /\ UNCHANGED <<config, concat, records, probes, prefs, selected, outcome, stderr,
                   call, log, invs>>

\* an alias loop that walks the nodes from the last to the first
CallAlias_reversed ==
    /\ pc = "aliases"
    /\ idx <= Len(Nodes)
    /\ LET node == Nodes[Len(Nodes) + 1 - idx]
       IN  Invoke(MainCaller,
                  concat_domain(<<node.subdomain, config.subdomain>>),
                  node.host, node.port)
    /\ pc' = "in_alias"
    /\ UNCHANGED <<config, concat, idx, probes, prefs, selected, session, outcome, stderr>>

\* for node in config.nodes: update(concat_domain(node.subdomain, ...), ...)
CallAlias ==
    /\ pc = "aliases"
    /\ idx <= Len(Nodes)
    /\ Invoke(MainCaller,
              concat_domain(<<Nodes[idx].subdomain, config.subdomain>>),
              Nodes[idx].host, Nodes[idx].port)
    /\ pc' = "in_alias"
    /\ UNCHANGED <<config, concat, idx, probes, prefs, selected, session, outcome, stderr>>

\* update(config.subdomain, selected.host, selected.port)
CallBase ==
    /\ pc = "aliases"
    /\ idx > Len(Nodes)
    /\ Invoke(MainCaller, config.subdomain,
              Nodes[selected].host, Nodes[selected].port)
    /\ pc' = "in_base"
    /\ UNCHANGED <<config, concat, idx, probes, prefs, selected, session, outcome, stderr>>

\* an alias call returns: the loop moves to the next node
AliasReturn ==
    /\ pc = "in_alias"
    /\ call[MainCaller].pc = "returned"
    /\ call' = [call EXCEPT ![MainCaller] = IdleFrame]
    /\ idx' = idx + 1
    /\ pc' = "aliases"
    /\ UNCHANGED <<config, concat, records, probes, prefs, selected, session, outcome,
                   stderr, log, invs>>

\* the last call returns: the with block ends and main returns
BaseReturn ==
    /\ pc = "in_base"
    /\ call[MainCaller].pc = "returned"
    /\ call' = [call EXCEPT ![MainCaller] = IdleFrame]
    /\ session' = "closed"
    /\ Exit("ok")
    /\ UNCHANGED <<config, concat, records, idx, probes, prefs, selected, stderr, log, invs>>

\* a main without the with statement: the exception leaves the client open
CallRaised_leaks ==
    /\ pc \in {"in_alias", "in_base"}
    /\ call[MainCaller].pc = "raised"
    /\ call' = [call EXCEPT ![MainCaller] = IdleFrame]
    /\ Exit("DnsOperationError")
    /\ UNCHANGED <<config, concat, records, idx, probes, prefs, selected, session,
                   stderr, log, invs>>

\* a main that catches the exception of update_record and goes on
CallRaised_goes_on ==
    /\ pc \in {"in_alias", "in_base"}
    /\ call[MainCaller].pc = "raised"
    /\ call' = [call EXCEPT ![MainCaller] = IdleFrame]
    /\ IF pc = "in_alias"
       THEN /\ idx' = idx + 1
            /\ pc' = "aliases"
            /\ UNCHANGED <<session, outcome>>
       ELSE /\ session' = "closed"
            /\ Exit("ok")
            /\ UNCHANGED idx
    /\ UNCHANGED <<config, concat, records, probes, prefs, selected, stderr, log, invs>>

\* an exception of update_record leaves the with block and main
CallRaised ==
    /\ pc \in {"in_alias", "in_base"}
    /\ call[MainCaller].pc = "raised"
    /\ call' = [call EXCEPT ![MainCaller] = IdleFrame]
    /\ session' = "closed"
    /\ Exit("DnsOperationError")
    /\ UNCHANGED <<config, concat, records, idx, probes, prefs, selected, stderr, log, invs>>

Init ==
    /\ config \in Config
    /\ records \in InitialZones
    /\ pc = "probing"
    /\ idx = 1
    /\ probes = <<>>
    /\ prefs = <<>>
    /\ selected = 0
    /\ session = "unopened"
    /\ outcome = "running"
    /\ stderr = <<>>
    /\ call = [p \in Callers |-> IdleFrame]
    /\ log = <<>>
    /\ invs = <<>>
    /\ concat = NoConcat

Next ==
    \/ Probe
    \/ Select
    \/ OpenSession
    \/ CallAlias
    \/ CallBase
    \/ ZoneGet(MainCaller)
    \/ List(MainCaller)
    \/ Commit(MainCaller)
    \/ AliasReturn
    \/ BaseReturn
    \/ CallRaised

Spec == Init /\ [][Next]_vars

-----------------------------------------------------------------------------
(* main run a second time on the same configuration and zone: the log,    *)
(* the invocations and the probe results of the first run are kept         *)

\* if __name__ == "__main__": main(), a second time after a run that returned
Rerun ==
    /\ pc = "done"
    /\ outcome = "ok"
    /\ Len(probes) = Len(Nodes)
    /\ pc' = "probing"
    /\ idx' = 1
    /\ prefs' = <<>>
    /\ selected' = 0
    /\ session' = "unopened"
    /\ outcome' = "running"
    /\ UNCHANGED <<config, concat, records, probes, stderr, call, log, invs>>

\* a probe of a later run gives what the probe of that node gave before
ProbeSameNetwork ==
    /\ Probe
    /\ Len(probes) >= Len(Nodes) =>
          probes'[Len(probes')] = probes[Len(probes') - Len(Nodes)]

NextTwice ==
    \/ ProbeSameNetwork
    \/ Select
    \/ OpenSession
    \/ CallAlias
    \/ CallBase
    \/ ZoneGet(MainCaller)
    \/ List(MainCaller)
    \/ Commit(MainCaller)
    \/ AliasReturn
    \/ BaseReturn
    \/ CallRaised
    \/ Rerun

InitTwice ==
    /\ Init
    /\ config.subdomain = <<"mc">>

SpecTwice == InitTwice /\ [][NextTwice]_vars

-----------------------------------------------------------------------------
(* update_record called directly, one call after another, by any caller *)

RecSubdomains == { <<"mc">>, <<"mc", Dot>>, <<"b", Dot, "mc">> }

RecTargets == { <<"h1", DefaultPort>>, <<"h2", DefaultPort + 1>> }

Quiet == \A q \in Callers : call[q].pc \in {"idle", "returned", "raised"}

SequentialCall ==
    /\ pc = "calls"
    /\ Quiet
    /\ Len(invs) < MaxCalls
    /\ \E p \in Callers, s \in RecSubdomains, t \in RecTargets :
          Invoke(p, s, t[1], t[2])
    /\ UNCHANGED <<config, concat, mainVars>>

InitRec ==
    /\ config = [nodes |-> <<>>, subdomain |-> <<"mc">>]
    /\ records \in InitialZones
    /\ pc = "calls"
    /\ idx = 1
    /\ probes = <<>>
    /\ prefs = <<>>
    /\ selected = 0
    /\ session = "open"
    /\ outcome = "running"
    /\ stderr = <<>>
    /\ call = [p \in Callers |-> IdleFrame]
    /\ log = <<>>
    /\ invs = <<>>
    /\ concat = NoConcat

NextRec ==
    \/ SequentialCall
    \/ \E p \in Callers : ZoneGet(p)
    \/ \E p \in Callers : List(p)
    \/ \E p \in Callers : Commit(p)

SpecRec == InitRec /\ [][NextRec]_vars

-----------------------------------------------------------------------------
(* update_record called by two callers whose provider calls interleave *)

\* the names the two callers reconcile: the base name and one alias
RaceSubdomains == { <<"mc">>, <<"b", Dot, "mc">> }

\* each caller is a run of main, which passes the target it selected to
\* every update_record call it makes
RaceTarget(p) ==
    IF p = MainCaller THEN <<"h1", DefaultPort>> ELSE <<"h2", DefaultPort + 1>>

\* a caller that is not inside update_record enters it, whatever the other does
ConcurrentCall ==
    /\ pc = "calls"
    /\ Len(invs) < MaxCalls
    /\ \E p \in Callers, s \in RaceSubdomains :
          /\ call[p].pc \in {"idle", "returned", "raised"}
          /\ Invoke(p, s, RaceTarget(p)[1], RaceTarget(p)[2])
    /\ UNCHANGED <<config, concat, mainVars>>

InitRace == InitRec

NextRace ==
    \/ ConcurrentCall
    \/ \E p \in Callers : ZoneGet(p)
    \/ \E p \in Callers : List(p)
    \/ \E p \in Callers : Commit(p)

SpecRace == InitRace /\ [][NextRace]_vars

-----------------------------------------------------------------------------
(* concat_domain called on its own, and nested as update_record nests it *)

Chars == {"a", Dot}

PartStrings == UNION { [1..n -> Chars] : n \in 0..MaxPartLen }

PartLists == UNION { [1..n -> PartStrings] : n \in 1..MaxParts }

otherVars == <<config, records, call, log, invs, mainVars>>

\* concat_domain(*parts)
ConcatCall ==
    /\ concat.kind = "pending"
    /\ concat' = [concat EXCEPT !.kind = "flat",
                                !.result = concat_domain(concat.parts)]
    /\ UNCHANGED otherVars

\* concat_domain("_minecraft._tcp", concat_domain(node.subdomain, base), zone.name)
AliasFqdnCall ==
    /\ concat.kind = "pending"
    /\ Len(concat.parts) = 3
    /\ concat' = [concat EXCEPT
          !.kind = "nested",
          !.result = concat_domain(<<MinecraftTcp,
                        concat_domain(<<concat.parts[1], concat.parts[2]>>),
                        concat.parts[3]>>)]
    /\ UNCHANGED otherVars

InitConcat ==
    /\ config = [nodes |-> <<>>, subdomain |-> <<"mc">>]
    /\ records = {}
    /\ pc = "concat"
    /\ idx = 1
    /\ probes = <<>>
    /\ prefs = <<>>
    /\ selected = 0
    /\ session = "unopened"
    /\ outcome = "running"
    /\ stderr = <<>>
    /\ call = [p \in Callers |-> IdleFrame]
    /\ log = <<>>
    /\ invs = <<>>
    /\ \E ps \in PartLists : concat = [parts |-> ps, kind |-> "pending", result |-> <<>>]

NextConcat ==
    \/ ConcatCall
    \/ AliasFqdnCall

SpecConcat == InitConcat /\ [][NextConcat]_vars

-----------------------------------------------------------------------------
(* Vocabulary of the properties *)

IsMutation(e) == e.op \in {"create", "update"}

\* the fully-qualified name an update_record call with this subdomain works on
NameOf(subdomain) == concat_domain(<<MinecraftTcp, subdomain, ZoneName>>)

AliasName(i) ==
    NameOf(concat_domain(<<Nodes[i].subdomain, config.subdomain>>))

BaseName == NameOf(config.subdomain)

\* the provider calls of the k-th update_record invocation, in order
CallsOf(k) == LET ofK(e) == e.inv = k IN SelectSeq(log, ofK)

MutationsOf(k) == LET mutK(e) == e.inv = k /\ IsMutation(e) IN SelectSeq(log, mutK)

AllProbed == Len(prefs) = Len(Nodes)

AllScoresZero ==
    /\ Nodes # <<>>
    /\ AllProbed
    /\ \A i \in 1..Len(prefs) : prefs[i][1] = 0

SomeScorePositive ==
    /\ AllProbed
    /\ \E i \in 1..Len(prefs) : prefs[i][1] > 0

-----------------------------------------------------------------------------
(* C1: when every node of a non-empty node list scores 0 (every probe      *)
(* failed), the run issues no create and no update, for no alias and not   *)
(* for the base record, and it ends by reporting "no node available."      *)
C1_NoMutationWhenAllFail ==
    AllScoresZero =>
        /\ \A k \in 1..Len(log) : ~IsMutation(log[k])
        /\ pc = "done" =>
              /\ outcome = "no_node"
              /\ stderr # <<>>
              /\ stderr[Len(stderr)] = "no node available."

C1_Witness ==
    /\ pc = "done"
    /\ AllScoresZero
    /\ Len(Nodes) = 2
    /\ \A i \in 1..Len(probes) : ~probes[i].ok
    /\ records # {}

(* C2: over a non-empty list of scores with some score above 0, the        *)
(* selection returns a node whose score is the maximum, and among the      *)
(* nodes with that score the earliest in configuration order.              *)
C2_SelectsFirstMaximum ==
    (pc # "probing" /\ SomeScorePositive) =>
        /\ selected \in 1..Len(prefs)
        /\ \A j \in 1..Len(prefs) : prefs[j][1] * prefs[selected][2]
                                      <= prefs[selected][1] * prefs[j][2]
        /\ \A j \in 1..(selected - 1) : prefs[j][1] * prefs[selected][2]
                                          < prefs[selected][1] * prefs[j][2]

C2_Witness ==
    /\ selected = 1
    /\ Len(prefs) = 2
    /\ prefs[1][1] > 0
    /\ prefs[1][1] * prefs[2][2] = prefs[2][1] * prefs[1][2]
    /\ probes[1].lat # probes[2].lat

-----------------------------------------------------------------------------
(* Properties of update_record, checked under SpecRec *)

Returned(k) == invs[k].status = "returned"

SameArguments(k, l) ==
    /\ invs[k].subdomain = invs[l].subdomain
    /\ invs[k].host = invs[l].host
    /\ invs[k].port = invs[l].port

SrvAt(recs, name) == { r \in recs : r.type = "SRV" /\ r.name = name }

Ops(k) == [j \in 1..Len(MutationsOf(k)) |-> MutationsOf(k)[j].op]

(* C3: from a zone with no SRV record at the name, two update_record calls *)
(* in sequence with identical (subdomain, host, port) issue exactly one    *)
(* create (first call) and exactly one update (second call), and the       *)
(* record set after the second call equals the one after the first.        *)
C3_CreateThenUpdate ==
    \A k \in 1..(Len(invs) - 1) :
        ( /\ Returned(k)
          /\ Returned(k + 1)
          /\ SameArguments(k, k + 1)
          /\ SrvAt(invs[k].before, NameOf(invs[k].subdomain)) = {} )
        => /\ Ops(k) = <<"create">>
           /\ Ops(k + 1) = <<"update">>
           /\ invs[k + 1].after = invs[k].after

C3_Witness ==
    /\ Len(invs) = 2
    /\ Returned(1)
    /\ Returned(2)
    /\ SameArguments(1, 2)
    /\ SrvAt(invs[1].before, NameOf(invs[1].subdomain)) = {}
    /\ invs[1].before # {}
    /\ records = invs[2].after

AtMostOnePerName(recs) ==
    \A r1, r2 \in recs :
        (r1.type = "SRV" /\ r2.type = "SRV" /\ r1.name = r2.name) => r1 = r2

(* C4: a zone that starts with at most one SRV record per name keeps at    *)
(* most one SRV record per name through any sequence of sequential         *)
(* update_record calls, failed calls included, and after each call that    *)
(* returns exactly one SRV record exists at that call's name.              *)
C4_AtMostOneRecordPerName ==
    /\ AtMostOnePerName(records)
    /\ \A k \in 1..Len(invs) :
          /\ AtMostOnePerName(invs[k].before)
          /\ AtMostOnePerName(invs[k].after)
          /\ Returned(k) =>
                Cardinality(SrvAt(invs[k].after, NameOf(invs[k].subdomain))) = 1

C4_Witness ==
    /\ Len(invs) = 2
    /\ invs[1].status = "raised"
    /\ Returned(2)
    /\ invs[1].subdomain # invs[2].subdomain
    /\ NameOf(invs[1].subdomain) = NameOf(invs[2].subdomain)
    /\ Cardinality(SrvAt(records, NameOf(invs[2].subdomain))) = 1
    /\ Cardinality(records) = 3

(* C5: an update_record call that returns has issued exactly one mutation; *)
(* when its listing by exact name and type SRV returned a record (which it *)
(* does exactly when such a record exists), the mutation is an update      *)
(* addressed to the identity of the returned record and no create; when    *)
(* the listing returned nothing, the mutation is a create.                 *)
C5_OneMutationPerCall ==
    \A k \in 1..Len(invs) : Returned(k) =>
        LET cs == CallsOf(k)
            ms == MutationsOf(k)
            existing == SrvAt(invs[k].before, NameOf(invs[k].subdomain))
        IN  /\ Len(cs) = 3
            /\ cs[2].op = "list"
            /\ cs[2].name = NameOf(invs[k].subdomain)
            /\ Len(ms) = 1
            /\ ms[1] = cs[3]
            /\ ms[1].name = cs[2].name
            /\ (cs[2].id # 0) = (existing # {})
            /\ cs[2].id # 0 =>
                  /\ ms[1].op = "update"
                  /\ ms[1].id = cs[2].id
                  /\ cs[2].id \in { r.id : r \in existing }
                  /\ { r.id : r \in invs[k].after } = { r.id : r \in invs[k].before }
            /\ cs[2].id = 0 =>
                  /\ ms[1].op = "create"
                  /\ ms[1].id \notin { r.id : r \in invs[k].before }
                  /\ Cardinality(invs[k].after) = Cardinality(invs[k].before) + 1

C5_Witness ==
    /\ Len(invs) = 2
    /\ Returned(1)
    /\ Returned(2)
    /\ Ops(1) = <<"update">>
    /\ Ops(2) = <<"create">>
    /\ CallsOf(1)[2].id = MutationsOf(1)[1].id

-----------------------------------------------------------------------------
(* Properties of a run of main, checked under Spec *)

\* exactly the SRV records at the name carry this target and port
PointsTo(name, host, port) ==
    /\ SrvAt(records, name) # {}
    /\ \A r \in SrvAt(records, name) :
          r.data.target = host /\ r.data.port = port

\* the identities of the records the run has created or updated
Written == { log[j].id : j \in { i \in 1..Len(log) : IsMutation(log[i]) /\ log[i].ok } }

(* C6: after a run in which some node scores above 0 and no provider call  *)
(* fails, the SRV record at every node's alias name has that node's host   *)
(* and port, the SRV record at the base name has the selected node's host  *)
(* and port, and every record written has priority 0 and weight 0.         *)
C6_RunPublishesEveryNode ==
    (pc = "done" /\ outcome = "ok") =>
        /\ \A i \in 1..Len(Nodes) :
              PointsTo(AliasName(i), Nodes[i].host, Nodes[i].port)
        /\ PointsTo(BaseName, Nodes[selected].host, Nodes[selected].port)
        /\ \A r \in records :
              r.id \in Written => r.data.priority = 0 /\ r.data.weight = 0

\* the aliases of the nodes are pairwise different names
DistinctAliases ==
    \A i, j \in 1..Len(Nodes) : AliasName(i) = AliasName(j) => i = j

\* what remains of C6 when no two nodes share an alias name
C6_ForDistinctAliases ==
    DistinctAliases => C6_RunPublishesEveryNode

(* C7: when a provider call of the k-th update_record call fails, the run  *)
(* ends with that error: the failed call is the last provider call of the  *)
(* run, no later reconciliation is started (the base record is not touched *)
(* after a failed alias call), and the zone stays as the k-1 earlier       *)
(* calls, all of which returned, left it.                                  *)
C7_FailureEndsRun ==
    \A j \in 1..Len(log) : ~log[j].ok =>
        LET k == log[j].inv
        IN  /\ j = Len(log)
            /\ k = Len(invs)
            /\ invs[k].status = "raised"
            /\ pc \in {"in_alias", "in_base", "done"}
            /\ pc = "done" => outcome = "DnsOperationError"
            /\ records = invs[k].before
            /\ \A l \in 1..(k - 1) :
                  /\ Returned(l)
                  /\ invs[l + 1].before = invs[l].after
            /\ k <= Len(Nodes) =>
                  \A i \in 1..Len(log) :
                      IsMutation(log[i]) /\ log[i].ok => log[i].name # BaseName

C7_Witness ==
    /\ pc = "done"
    /\ outcome = "DnsOperationError"
    /\ Len(Nodes) = 2
    /\ Len(invs) = 2
    /\ log[Len(log)].op = "create"
    /\ ~log[Len(log)].ok
    /\ Written # {}
    /\ records = invs[1].after
    /\ records # invs[1].before

\* the step in which the probe of a node fails
ProbeFails ==
    /\ Len(probes') = Len(probes) + 1
    /\ ~probes'[Len(probes')].ok

(* C8: the failure of a probe does not end the run: the step records score *)
(* 0 for that node and leaves the run at the next node of the              *)
(* configuration, and a selection is made over the scores of all nodes.    *)
C8_ProbeFailureIsNotFatal ==
    /\ [][ProbeFails =>
             /\ prefs' = Append(prefs, <<0, 1>>)
             /\ idx' = idx + 1
             /\ pc' = "probing"
             /\ outcome' = "running"
             /\ stderr' # stderr]_vars
    /\ [](selected # 0 \/ outcome = "no_node" => AllProbed)

C8_Witness ==
    /\ Len(Nodes) = 2
    /\ Len(probes) = 2
    /\ ~probes[1].ok
    /\ probes[2].ok
    /\ selected = 2
    /\ prefs[1][1] = 0

(* C9: a probe that completes with latency exactly zero is treated as a    *)
(* fault: the node gets score 0 and the run does not end with a division   *)
(* error.                                                                  *)
C9_ZeroLatencyFailsClosed ==
    \A i \in 1..Len(probes) :
        (probes[i].ok /\ probes[i].lat = 0) =>
            /\ outcome # "ZeroDivisionError"
            /\ Len(prefs) >= i
            /\ prefs[i][1] = 0

\* the k-th node's alias has been reconciled with the node's own host and port
AliasReconciled(i) ==
    \E k \in 1..Len(invs) :
        /\ Returned(k)
        /\ invs[k].subdomain = concat_domain(<<Nodes[i].subdomain, config.subdomain>>)
        /\ invs[k].host = Nodes[i].host
        /\ invs[k].port = Nodes[i].port

(* C10, as stated: when the maximum score is 0 the run skips the base      *)
(* record, but still reconciles the alias of every node with the node's    *)
(* own host and port.                                                      *)
C10_AliasesStillReconciled ==
    (pc = "done" /\ AllScoresZero /\ outcome # "DnsOperationError") =>
        /\ \A i \in 1..Len(log) : IsMutation(log[i]) => log[i].name # BaseName
        /\ \A i \in 1..Len(Nodes) : AliasReconciled(i)

(* C10, amended: when the maximum score is 0 the run skips all DNS         *)
(* reconciliation: no update_record call is made for the base record or    *)
(* for any alias, no provider call is issued and no session is opened.     *)
C10_NothingReconciledWhenMaxZero ==
    (Nodes # <<>> /\ AllProbed /\ \A i \in 1..Len(prefs) : ~(prefs[i][1] > 0)) =>
        /\ invs = <<>>
        /\ log = <<>>
        /\ session = "unopened"
        /\ \A i \in 1..Len(Nodes) : ~AliasReconciled(i)
        /\ pc \in {"probing", "done"}

C10_Witness ==
    /\ pc = "done"
    /\ outcome = "no_node"
    /\ Len(Nodes) = 2
    /\ records = PreExisting
    /\ \E i \in 1..Len(Nodes) : SrvAt(records, AliasName(i)) = {}

-----------------------------------------------------------------------------
(* Properties of repeated runs, checked under SpecTwice *)

\* the update_record calls of a run that returns
CallsPerRun == Len(Nodes) + 1

(* C11: when main is run again on the same zone with the same              *)
(* configuration and the same probe results, some score above 0 and no     *)
(* provider error, the record set after the later run is the record set    *)
(* after the first run, and the later run issues updates only, no create.  *)
C11_RerunChangesNothing ==
    (pc = "done" /\ outcome = "ok" /\ Len(invs) = 2 * CallsPerRun) =>
        /\ records = invs[CallsPerRun].after
        /\ \A j \in 1..Len(log) :
              (log[j].inv > CallsPerRun /\ IsMutation(log[j])) =>
                  log[j].op = "update"
        /\ \A k \in (CallsPerRun + 1)..Len(invs) :
              /\ Returned(k)
              /\ Ops(k) = <<"update">>
              /\ SameArguments(k, k - CallsPerRun)

C11_Witness ==
    /\ pc = "done"
    /\ outcome = "ok"
    /\ Len(Nodes) = 2
    /\ Len(invs) = 2 * CallsPerRun
    /\ Ops(1) = <<"create">>
    /\ Ops(CallsPerRun) = <<"create">>
    /\ probes[1].ok # probes[2].ok

-----------------------------------------------------------------------------
(* Properties of concat_domain, checked under SpecConcat *)

\* the parts with one "." appended to those at the positions in S
WithDots(ps, S) ==
    [k \in 1..Len(ps) |-> IF k \in S THEN Append(ps[k], Dot) ELSE ps[k]]

HasDoubledDot(s) == \E k \in 1..(Len(s) - 1) : s[k] = Dot /\ s[k + 1] = Dot

EndsWithDot(s) == Len(s) > 0 /\ s[Len(s)] = Dot

(* C12: a trailing "." added to any subset of the parts leaves the result  *)
(* of concat_domain unchanged, and every result, that of the nested join   *)
(* for an alias included, has no ".." in it and no "." at its end.         *)
C12_RobustToTrailingDots ==
    /\ concat.kind = "flat" =>
          \A S \in SUBSET (1..Len(concat.parts)) :
              concat_domain(WithDots(concat.parts, S)) = concat.result
    /\ concat.kind \in {"flat", "nested"} =>
          /\ ~HasDoubledDot(concat.result)
          /\ ~EndsWithDot(concat.result)

\* a name in its usual notation: labels joined by ".", none of them empty,
\* with or without the "." of a fully-qualified name at the end
IsName(s) ==
    /\ Len(s) > 0
    /\ s[1] # Dot
    /\ ~HasDoubledDot(s)

\* what remains of C12 when every part is a name: a trailing "." on a part
\* makes no difference, and the result is a name with no "." at its end
C12_ForNames ==
    (\A k \in 1..Len(concat.parts) : IsName(concat.parts[k])) =>
        /\ concat.kind = "flat" =>
              concat.result =
                  concat_domain([k \in 1..Len(concat.parts) |->
                      IF EndsWithDot(concat.parts[k])
                      THEN SubSeq(concat.parts[k], 1, Len(concat.parts[k]) - 1)
                      ELSE Append(concat.parts[k], Dot)])
        /\ concat.kind \in {"flat", "nested"} =>
              /\ ~HasDoubledDot(concat.result)
              /\ ~EndsWithDot(concat.result)

-----------------------------------------------------------------------------
(* Further properties of a run of main, checked under Spec *)

\* the positions in the log of the creates and updates issued
MutationAt == { j \in 1..Len(log) : IsMutation(log[j]) }

(* C13: in a run that reaches the mutation phase the mutations come in     *)
(* this order: the alias of each node in configuration order, one call     *)
(* after another, and the base record after all of them; no mutation of    *)
(* the base record comes before the mutation of an alias.                  *)
C13_AliasesThenBase ==
    /\ \A i, j \in MutationAt : i < j => log[i].inv < log[j].inv
    /\ \A j \in MutationAt :
          LET k == log[j].inv
          IN  /\ k <= Len(Nodes) + 1
              /\ k <= Len(Nodes) => log[j].name = AliasName(k)
              /\ k = Len(Nodes) + 1 =>
                    /\ log[j].name = BaseName
                    /\ \A n \in 1..Len(Nodes) :
                          \E i \in MutationAt :
                              i < j /\ log[i].ok /\ log[i].inv = n
                                    /\ log[i].name = AliasName(n)

C13_Witness ==
    /\ pc = "done"
    /\ outcome = "ok"
    /\ Len(Nodes) = 2
    /\ AliasName(1) # AliasName(2)
    /\ Cardinality(MutationAt) = 3
    /\ selected = 1
    /\ log[Len(log)].name = BaseName

(* C14: the provider session belongs to the mutation phase: a run that     *)
(* ends with no node available never opens it, every provider call is      *)
(* made while it is open, and however the mutation phase ends, by return   *)
(* or by a failed provider call, it is closed when the run has ended.      *)
C14_SessionScopedToMutationPhase ==
    /\ outcome = "no_node" => session = "unopened"
    /\ \A j \in 1..Len(log) : log[j].session = "open"
    /\ pc \in {"aliases", "in_alias", "in_base"} => session = "open"
    /\ pc \in {"probing", "selected"} => session = "unopened" /\ log = <<>>
    /\ pc = "done" => session \in {"unopened", "closed"}
    /\ (pc = "done" /\ (log # <<>> \/ selected # 0)) => session = "closed"

C14_Witness ==
    /\ pc = "done"
    /\ outcome = "DnsOperationError"
    /\ session = "closed"
    /\ Len(invs) = 2
    /\ log[Len(log)].op = "list"

\* the probe of node i returned a latency above zero
ProbeSucceeded(i) == probes[i].ok /\ probes[i].lat > 0

(* C15: "no node available" is the outcome exactly when every probe        *)
(* failed: a node whose probe succeeds with a positive latency gets a      *)
(* score above 0, so a run with such a node selects a node and enters the  *)
(* mutation phase.                                                         *)
C15_SuccessfulProbeScoresPositive ==
    /\ \A i \in 1..Len(prefs) : ProbeSucceeded(i) => prefs[i][1] > 0
    /\ outcome = "no_node" => \A i \in 1..Len(probes) : ~probes[i].ok
    /\ (pc = "done" /\ AllProbed /\ \E i \in 1..Len(prefs) : ProbeSucceeded(i)) =>
          selected # 0

\* what remains of C15 when every bandwidth is positive
C15_ForPositiveBandwidth ==
    (\A i \in 1..Len(Nodes) : Nodes[i].bandwidth > 0) =>
        C15_SuccessfulProbeScoresPositive

(* C16: for every accepted configuration, the empty node list included,    *)
(* the selection ends with a selected node or with "no node available",    *)
(* no mutation and a clean exit; it never ends the run with an error.      *)
C16_SelectionNeverRaises ==
    (pc # "probing" /\ AllProbed) =>
        \/ selected # 0
        \/ /\ outcome = "no_node"
           /\ MutationAt = {}

\* what remains of C16 when the node list is not empty
C16_ForNonEmptyNodeList ==
    Nodes # <<>> => C16_SelectionNeverRaises

-----------------------------------------------------------------------------
(* Frame of update_record, checked under SpecRec *)

\* the records a call for this name must leave alone
Others(recs, name) == { r \in recs : r.name # name \/ r.type # "SRV" }

(* C17: an update_record call for name n changes only the SRV record at    *)
(* n: every other record of the zone is the same after the call as before  *)
(* it, whether the call creates, updates or fails.                         *)
C17_OnlyTheNamedRecordChanges ==
    \A k \in 1..Len(invs) :
        LET n == NameOf(invs[k].subdomain)
        IN  /\ Others(invs[k].after, n) = Others(invs[k].before, n)
            /\ invs[k].status = "raised" => invs[k].after = invs[k].before
            /\ invs[k].status # "active" =>
                  /\ invs[k].after = records \/ k < Len(invs)
                  /\ k < Len(invs) => invs[k + 1].before = invs[k].after

C17_Witness ==
    /\ Len(invs) = 2
    /\ invs[1].before = PreExisting
    /\ Returned(1)
    /\ Returned(2)
    /\ Ops(1) = <<"update">>
    /\ Ops(2) = <<"create">>
    /\ Cardinality(Others(records, NameOf(invs[1].subdomain))) = 3

-----------------------------------------------------------------------------
(* The race of two update_record calls, checked under SpecRace *)

\* the provider calls that created a record and returned
CreateAt == { j \in 1..Len(log) : log[j].op = "create" /\ log[j].ok }

\* the listings that found no record
EmptyListAt == { j \in 1..Len(log) :
                   log[j].op = "list" /\ log[j].ok /\ log[j].id = 0 }

\* records r1 and r2 were created by two calls that both listed the name
\* before either of them created
CreatedInRace(r1, r2) ==
    \E c1, c2 \in CreateAt, l1, l2 \in EmptyListAt :
        /\ log[c1].id = r1.id
        /\ log[c2].id = r2.id
        /\ log[c1].inv # log[c2].inv
        /\ log[l1].inv = log[c1].inv
        /\ log[l2].inv = log[c2].inv
        /\ log[l1].name = r1.name
        /\ log[l2].name = r1.name
        /\ l1 < c2
        /\ l2 < c1

\* the provider calls of different update_record calls never interleaved
NeverOverlapped ==
    \A i, j, k \in 1..Len(log) :
        (i < j /\ j < k /\ log[i].inv = log[k].inv) => log[j].inv = log[i].inv

\* two SRV records with the same name
Duplicates(recs) ==
    { pair \in recs \X recs :
        /\ pair[1] # pair[2]
        /\ pair[1].type = "SRV"
        /\ pair[2].type = "SRV"
        /\ pair[1].name = pair[2].name }

(* C18: list-then-create is not atomic. Two SRV records with the same name *)
(* come about when two calls for that name interleave so that both list    *)
(* the name as empty before either creates; this state can be reached,     *)
(* and it cannot be reached when the calls are strictly sequential.        *)
C18_DuplicatesOnlyByInterleaving ==
    /\ \A pair \in Duplicates(records) : CreatedInRace(pair[1], pair[2])
    /\ NeverOverlapped => Duplicates(records) = {}

C18_Witness ==
    /\ Len(invs) = 2
    /\ invs[1].before = {}
    /\ invs[1].subdomain = invs[2].subdomain
    /\ Returned(1)
    /\ Returned(2)
    /\ Ops(1) = <<"create">>
    /\ Ops(2) = <<"create">>
    /\ \E pair \in Duplicates(records) :
          pair[1].data.target # pair[2].data.target

====
